---- MODULE Spec2Model ----
(***************************************************************************)
(* Model of the recording pipeline of the AI QA test generator:            *)
(*   RecordingService  (session controller, message listener, liveness     *)
(*                      interval)                                          *)
(*   Dashboard         (handleStartRecording / handleStopRecording and the *)
(*                      two timers it schedules)                           *)
(* Every `await` of the source is a suspension point: the part of a method *)
(* before the await and the part after it are two actions, joined by a     *)
(* record in `calls` (the pending continuation).                           *)
(***************************************************************************)
EXTENDS Integers, Sequences, FiniteSets, Bags, TLC

\* ---------------------------------------------------------------- bounds
MaxSessions == 2    \* session objects allocated by startRecording
MaxMsgs     == 2    \* messages posted by capture agents
MaxCalls    == 2    \* async calls suspended at an await at the same time
MaxPieces   == 4    \* pieces the answer of the generation service is made of
MaxLines    == 2    \* step lines in an answer of the generation service
MaxTitle    == 4    \* tokens in the title line of an answer
MaxDownloads == 2   \* files downloaded after one synthesis
MaxNow      == 1    \* clock ticks
MaxClass    == 2    \* tokens in an element's class attribute
MaxDepth    == 2    \* elements from the event target up to the root
MaxRequests == 2    \* fetch and XMLHttpRequest calls of the recorded page

\* ------------------------------------------------------------- constants
Null      == 0        \* the null reference / an unset optional field
Stamp     == 1        \* a timestamp written by `new Date().toISOString()`
UnknownId == 0 - 1    \* a session id no session carries
MsgTypes  == {"INTERACTION_RECORDED", "API_CALL_RECORDED"}

VARIABLES
    sessions,         \* heap of RecordingSession objects, indexed by reference
    currentSession,   \* RecordingService.currentSession (reference or Null)
    recordingWindow,  \* RecordingService.recordingWindow: "null", "open", "closed"
    isRecording,      \* RecordingService.isRecording
    listeners,        \* 'message' listeners registered on window
    intervals,        \* checkWindow intervals still running
    surfaceOwner,     \* session held when the open surface was set up
    closedFor,        \* history: the session that was held, in status recording,
                      \* when the surface was closed, until a stop takes effect
    channel,          \* messages posted by an agent and not yet delivered
    posted,           \* number of messages posted so far
    calls,            \* bag of continuations suspended at an await
    timers,           \* Dashboard timers not yet fired
    uiSession,        \* Dashboard state currentSession (reference or Null)
    uiTestCases,      \* Dashboard state testCases: session they were generated for
    response,         \* text answered by blink.ai.generateText
    format,           \* the format test cases are requested in
    generated,        \* generateTestCases has returned
    testCases,        \* what generateTestCases returned
    now,              \* the clock `new Date()` reads
    downloads,        \* files handed to downloadFile: name and content
    target,           \* the element a user event hits in the recorded page, as the
                      \* chain of elements from it to the root
    requests          \* the fetch and XMLHttpRequest calls the recorded page made

vars == <<sessions, currentSession, recordingWindow, isRecording, listeners,
          intervals, surfaceOwner, closedFor, channel, posted, calls, timers,
          uiSession, uiTestCases, response, format, generated, testCases, now, downloads,
          target, requests>>

svc  == <<sessions, currentSession, recordingWindow, isRecording, listeners,
          intervals, surfaceOwner, closedFor>>
dash == <<timers, uiSession, uiTestCases>>
gen  == <<response, format, generated, testCases, now, downloads, target, requests>>

Refs == 1..Len(sessions)

\* ------------------------------------------------------------- helpers
\* a continuation: the suspended operation, who awaits it, and what it captured
Call(op, caller, cap) == [op |-> op, caller |-> caller, cap |-> cap]

Timer(kind, sess, cap) == [kind |-> kind, sess |-> sess, cap |-> cap]

AddCall(c) == calls (+) SetToBag({c})
DelCall(c) == calls (-) SetToBag({c})
Pending    == BagToSet(calls)

SetField(s, r, f, v) == [s EXCEPT ![r] = [@ EXCEPT ![f] = v]]

\* the controller and the Dashboard after construction
ServiceInit ==
    /\ sessions = <<>>
    /\ currentSession = Null
    /\ recordingWindow = "null"
    /\ isRecording = FALSE
    /\ listeners = 0
    /\ intervals = 0
    /\ surfaceOwner = Null
    /\ closedFor = Null
    /\ channel = {}
    /\ posted = 0
    /\ calls = EmptyBag
    /\ timers = {}
    /\ uiSession = Null
    /\ uiTestCases = Null

\* no synthesis has run and nothing was downloaded
GenIdle ==
    /\ response = <<>>
    /\ format = "gherkin"
    /\ generated = FALSE
    /\ testCases = <<>>
    /\ now = 0
    /\ downloads = <<>>
    /\ target = <<>>
    /\ requests = <<>>

Init == ServiceInit /\ GenIdle

\* ------------------------------------------------ RecordingService.startRecording
\* the session object startRecording allocates; `session_${Date.now()}` is
\* modelled as an id no other session carries
NewSession ==
    [id |-> Len(sessions) + 1, status |-> "recording", endTime |-> Null,
     interactions |-> <<>>, apiCalls |-> <<>>]

\* the isRecording guard of startRecording
StartGuard == ~isRecording

\* startRecording up to `await this.saveSessionToDatabase`
StartAccept(caller) ==
    /\ StartGuard
    /\ Len(sessions) < MaxSessions
    /\ BagCardinality(calls) < MaxCalls
    /\ sessions' = Append(sessions, NewSession)
    /\ currentSession' = Len(sessions) + 1
    /\ calls' = AddCall(Call("start", caller, Null))
    /\ UNCHANGED <<recordingWindow, isRecording, listeners, intervals, surfaceOwner,
                   closedFor, channel, posted, gen, dash>>

\* startRecording throwing 'Recording already in progress'
StartReject(caller) ==
    /\ ~StartGuard
    /\ UNCHANGED vars

\* startRecording after the await: openRecordingWindow, isRecording = true, return.
\* window.open reuses the window named 'recording_window' when it is open, and
\* otherwise gives a new window or null (blocked).  Dashboard.handleStartRecording
\* continues with setCurrentSession(session).
StartResume(c, opened) ==
    /\ c \in Pending /\ c.op = "start"
    /\ opened \in (IF recordingWindow = "open" THEN {"open"} ELSE {"open", "null"})
    /\ calls' = DelCall(c)
    /\ recordingWindow' = opened
    /\ IF opened = "open"
         THEN /\ listeners' = listeners + 1
              /\ intervals' = intervals + 1
              /\ surfaceOwner' = currentSession
              /\ closedFor' = Null
         ELSE UNCHANGED <<listeners, intervals, surfaceOwner, closedFor>>
    /\ isRecording' = TRUE
    /\ uiSession' = IF c.caller = "ui" THEN currentSession ELSE uiSession
    /\ UNCHANGED <<sessions, currentSession, channel, posted, gen, timers, uiTestCases>>

\* ------------------------------------------------ RecordingService.stopRecording
\* the guard of stopRecording
StopGuard == isRecording /\ currentSession # Null

\* stopRecording up to `await this.saveSessionToDatabase`: flag, status, endTime,
\* close the window when it is open, drop the window reference
StopEffect(caller, cap) ==
    /\ BagCardinality(calls) < MaxCalls
    /\ isRecording' = FALSE
    /\ sessions' = [sessions EXCEPT ![currentSession] =
                      [@ EXCEPT !.status = "processing", !.endTime = Stamp]]
    /\ recordingWindow' = "null"
    /\ calls' = AddCall(Call("stop", caller, cap))
    /\ closedFor' = Null
    /\ UNCHANGED <<currentSession, listeners, surfaceOwner>>

\* `cap` is the Dashboard state the calling handler's closure holds
StopAccept(caller) ==
    /\ StopGuard
    /\ StopEffect(caller, IF caller = "ui" THEN uiSession ELSE Null)
    /\ UNCHANGED <<intervals, channel, posted, gen, dash>>

\* stopRecording returning null at its guard
StopNull(caller) ==
    /\ ~StopGuard
    /\ UNCHANGED vars

\* stopRecording after the await: `const session = this.currentSession; return session`.
\* Dashboard.handleStopRecording continues with the returned session: when it is
\* not null it shows it and schedules the 3s synthesis timer and the 15s fallback.
StopResume(c) ==
    /\ c \in Pending /\ c.op = "stop"
    /\ calls' = DelCall(c)
    /\ IF c.caller = "ui" /\ currentSession # Null
         THEN /\ uiSession' = currentSession
              /\ timers' = timers \cup {Timer("synth", currentSession, c.cap),
                                        Timer("fallback", currentSession, c.cap)}
         ELSE UNCHANGED <<uiSession, timers>>
    /\ UNCHANGED <<svc, channel, posted, gen, uiTestCases>>

\* ------------------------------------------------ RecordingService.completeSession
\* a guard that forgets to compare the id
CompleteGuardAnyId(sessionId) ==
    currentSession # Null

\* the guard of completeSession
CompleteGuard(sessionId) ==
    currentSession # Null /\ sessions[currentSession].id = sessionId

\* completeSession up to `await this.saveSessionToDatabase`; when the guard fails
\* the call returns without a change
CompleteEffect(sessionId, caller) ==
    IF CompleteGuard(sessionId)
      THEN /\ BagCardinality(calls) < MaxCalls
           /\ sessions' = SetField(sessions, currentSession, "status", "completed")
           /\ calls' = AddCall(Call("complete", caller, Null))
      ELSE UNCHANGED <<sessions, calls>>

CompleteCall(sessionId) ==
    /\ CompleteEffect(sessionId, "api")
    /\ UNCHANGED <<currentSession, recordingWindow, isRecording, listeners, intervals,
                   surfaceOwner, closedFor, channel, posted, gen, dash>>

\* completeSession after the await: `this.currentSession = null`.  The Dashboard
\* timer callbacks continue with setCurrentSession(null).
CompleteResume(c) ==
    /\ c \in Pending /\ c.op = "complete"
    /\ calls' = DelCall(c)
    /\ currentSession' = Null
    /\ uiSession' = IF c.caller = "api" THEN uiSession ELSE Null
    /\ UNCHANGED <<sessions, recordingWindow, isRecording, listeners, intervals,
                   surfaceOwner, closedFor, channel, posted, gen, timers, uiTestCases>>

\* ------------------------------------------------ pauseRecording / resumeRecording
\* a pause that stamps the session as stop does
PauseStamping ==
    /\ IF currentSession # Null
         THEN /\ sessions' = [sessions EXCEPT ![currentSession] =
                                [@ EXCEPT !.status = "stopped", !.endTime = Stamp]]
              /\ isRecording' = FALSE
         ELSE UNCHANGED <<sessions, isRecording>>
    /\ UNCHANGED <<currentSession, recordingWindow, listeners, intervals, surfaceOwner,
                   closedFor, channel, posted, gen, calls>>

PauseEffect ==
    /\ IF currentSession # Null
         THEN /\ sessions' = SetField(sessions, currentSession, "status", "stopped")
              /\ isRecording' = FALSE
         ELSE UNCHANGED <<sessions, isRecording>>
    /\ UNCHANGED <<currentSession, recordingWindow, listeners, intervals, surfaceOwner,
                   closedFor, channel, posted, gen, calls>>

ResumeEffect ==
    /\ IF currentSession # Null
         THEN /\ sessions' = SetField(sessions, currentSession, "status", "recording")
              /\ isRecording' = TRUE
         ELSE UNCHANGED <<sessions, isRecording>>
    /\ UNCHANGED <<currentSession, recordingWindow, listeners, intervals, surfaceOwner,
                   closedFor, channel, posted, gen, calls>>

PauseRecording == PauseEffect /\ UNCHANGED dash

ResumeRecording == ResumeEffect /\ UNCHANGED dash

\* ------------------------------------------------ capture surface and message channel
\* the user closes the capture surface
CloseSurface ==
    /\ recordingWindow = "open"
    /\ recordingWindow' = "closed"
    /\ closedFor' = IF currentSession # Null /\ sessions[currentSession].status = "recording"
                      THEN currentSession ELSE Null
    /\ UNCHANGED <<sessions, currentSession, isRecording, listeners, intervals,
                   surfaceOwner, channel, posted, gen, calls, dash>>

\* the injected script posts a message from the open surface; `data` numbers the
\* records in the order they are posted, `src` is the session the surface serves
PostMessage(type) ==
    /\ recordingWindow = "open"
    /\ posted < MaxMsgs
    /\ posted' = posted + 1
    /\ channel' = channel \cup {[type |-> type, data |-> posted + 1, src |-> surfaceOwner]}
    /\ UNCHANGED <<svc, calls, dash, gen>>

\* a push that puts the record in front (unshift)
PushFront(seq, record) == <<record>> \o seq

\* recordInteraction / recordApiCall: push
Push(seq, record) == Append(seq, record)

\* a listener that does not look at the recording flag
ListenerAlways(s, m) ==
    IF currentSession = Null THEN s
    ELSE IF m.type = "INTERACTION_RECORDED"
      THEN SetField(s, currentSession, "interactions",
                    Push(s[currentSession].interactions, m))
    ELSE IF m.type = "API_CALL_RECORDED"
      THEN SetField(s, currentSession, "apiCalls",
                    Push(s[currentSession].apiCalls, m))
    ELSE s

\* what one 'message' listener of monitorWindow makes of heap s on message m
Listener(s, m) ==
    IF currentSession = Null \/ ~isRecording THEN s
    ELSE IF m.type = "INTERACTION_RECORDED"
      THEN SetField(s, currentSession, "interactions",
                    Push(s[currentSession].interactions, m))
    ELSE IF m.type = "API_CALL_RECORDED"
      THEN SetField(s, currentSession, "apiCalls",
                    Push(s[currentSession].apiCalls, m))
    ELSE s

RECURSIVE Dispatch(_, _, _)
\* every registered listener handles the message, one after the other
Dispatch(s, m, n) == IF n = 0 THEN s ELSE Dispatch(Listener(s, m), m, n - 1)

\* the message channel delivers m to the controller's window
DeliverMessage(m) ==
    /\ m \in channel
    /\ channel' = channel \ {m}
    /\ sessions' = Dispatch(sessions, m, listeners)
    /\ UNCHANGED <<currentSession, recordingWindow, isRecording, listeners, intervals,
                   surfaceOwner, closedFor, posted, calls, dash, gen>>

\* one run of a checkWindow interval that finds the window closed:
\* clearInterval, then stopRecording()
CheckWindow ==
    /\ intervals > 0
    /\ recordingWindow = "closed"
    /\ intervals' = intervals - 1
    /\ IF StopGuard
         THEN StopEffect("interval", Null)
         ELSE UNCHANGED <<sessions, currentSession, recordingWindow, isRecording,
                          listeners, surfaceOwner, closedFor, calls>>
    /\ UNCHANGED <<channel, posted, gen, dash>>

\* ------------------------------------------------ specification of the controller
SessionIds == {sessions[r].id : r \in Refs} \cup {UnknownId}

Next ==
    \/ StartAccept("api")
    \/ StartReject("api")
    \/ \E c \in Pending, opened \in {"open", "null"} : StartResume(c, opened)
    \/ StopAccept("api")
    \/ StopNull("api")
    \/ \E c \in Pending : StopResume(c)
    \/ \E id \in SessionIds : CompleteCall(id)
    \/ \E c \in Pending : CompleteResume(c)
    \/ PauseRecording
    \/ ResumeRecording
    \/ CloseSurface
    \/ \E type \in MsgTypes : PostMessage(type)
    \/ \E m \in channel : DeliverMessage(m)
    \/ CheckWindow

Spec == Init /\ [][Next]_vars

\* The same controller driven by callers that await every call before the next
\* one is made (as Dashboard's handlers do): while a call is suspended nothing
\* but its continuation runs.
Continue ==
    \/ \E c \in Pending, opened \in {"open", "null"} : StartResume(c, opened)
    \/ \E c \in Pending : StopResume(c)
    \/ \E c \in Pending : CompleteResume(c)

Quiescent == calls = EmptyBag

SeqNext ==
    \/ Quiescent /\ StartAccept("api")
    \/ Quiescent /\ StartReject("api")
    \/ Quiescent /\ StopAccept("api")
    \/ Quiescent /\ StopNull("api")
    \/ Quiescent /\ \E id \in SessionIds : CompleteCall(id)
    \/ Quiescent /\ PauseRecording
    \/ Quiescent /\ ResumeRecording
    \/ Quiescent /\ CloseSurface
    \/ Quiescent /\ \E type \in MsgTypes : PostMessage(type)
    \/ Quiescent /\ \E m \in channel : DeliverMessage(m)
    \/ Quiescent /\ CheckWindow
    \/ Continue

SeqSpec == Init /\ [][SeqNext]_vars

\* ------------------------------------------------ Dashboard
\* getCurrentSession() shown when it is not null (handlePauseRecording,
\* handleResumeRecording and the 1s poll of handleStartRecording)
ShowCurrent ==
    uiSession' = IF currentSession # Null THEN currentSession ELSE uiSession

HandlePauseRecording ==
    PauseEffect /\ ShowCurrent /\ UNCHANGED <<timers, uiTestCases>>

HandleResumeRecording ==
    ResumeEffect /\ ShowCurrent /\ UNCHANGED <<timers, uiTestCases>>

\* the poll runs once a handleStartRecording has got its session
Poll ==
    /\ Len(sessions) > Cardinality({c \in Pending : c.op = "start"})
    /\ ShowCurrent
    /\ UNCHANGED <<svc, channel, posted, gen, calls, timers, uiTestCases>>

\* the 3s timer of handleStopRecording fires: generateTestCases is called and
\* suspends at `await blink.ai.generateText`
SynthTimer(t) ==
    /\ t \in timers /\ t.kind = "synth"
    /\ BagCardinality(calls) < MaxCalls
    /\ timers' = timers \ {t}
    /\ calls' = AddCall(Call("generate", "synth", t.sess))
    /\ UNCHANGED <<svc, channel, posted, gen, uiSession, uiTestCases>>

\* completeSession(id) called by a timer callback that then awaits it and goes on
\* with setCurrentSession(null); `rest` are the other suspended calls
TimerComplete(id, caller, rest) ==
    IF CompleteGuard(id)
      THEN /\ sessions' = SetField(sessions, currentSession, "status", "completed")
           /\ calls' = rest (+) SetToBag({Call("complete", caller, Null)})
           /\ UNCHANGED uiSession
      ELSE /\ calls' = rest
           /\ uiSession' = Null
           /\ UNCHANGED sessions

\* generateText answers (ok: setTestCases) or fails (catch); on both branches
\* the callback calls completeSession(completedSession.id)
SynthResume(c, ok) ==
    /\ c \in Pending /\ c.op = "generate"
    /\ uiTestCases' = IF ok THEN c.cap ELSE uiTestCases
    /\ TimerComplete(sessions[c.cap].id, "synth", DelCall(c))
    /\ UNCHANGED <<currentSession, recordingWindow, isRecording, listeners, intervals,
                   surfaceOwner, closedFor, channel, posted, gen, timers>>

\* the 15s fallback timer fires: `if (currentSession?.status === 'processing')`
\* reads the session the handler's closure holds
FallbackTimer(t) ==
    /\ t \in timers /\ t.kind = "fallback"
    /\ timers' = timers \ {t}
    /\ IF t.cap # Null /\ sessions[t.cap].status = "processing"
         THEN /\ BagCardinality(calls) < MaxCalls
              /\ TimerComplete(sessions[t.sess].id, "fallback", calls)
         ELSE UNCHANGED <<sessions, calls, uiSession>>
    /\ UNCHANGED <<currentSession, recordingWindow, isRecording, listeners, intervals,
                   surfaceOwner, closedFor, channel, posted, gen, uiTestCases>>

\* ------------------------------------------------ specification of the Dashboard
\* The handlers drive the controller; the capture surface is closed by the user
\* and watched by the liveness check.
\* saveSessionToDatabase never suspends, so the continuation of a handler's
\* `await` runs before the next event, timer or answer of the generation service
Settled == \A c \in Pending : c.op = "generate"

DashNext ==
    \/ Settled /\ StartAccept("ui")
    \/ Settled /\ StartReject("ui")
    \/ Settled /\ StopAccept("ui")
    \/ Settled /\ StopNull("ui")
    \/ Settled /\ HandlePauseRecording
    \/ Settled /\ HandleResumeRecording
    \/ Settled /\ CloseSurface
    \/ Settled /\ CheckWindow
    \/ Settled /\ Poll
    \/ Settled /\ \E t \in timers : SynthTimer(t)
    \/ Settled /\ \E c \in Pending, ok \in BOOLEAN : SynthResume(c, ok)
    \/ Settled /\ \E t \in timers : FallbackTimer(t)
    \/ Continue

DashSpec == Init /\ [][DashNext]_vars

\* Timers fire, suspended persistence calls return and the liveness check keeps
\* ticking; the generation service need not answer and the user need not act.
Scheduled ==
    \/ Continue
    \/ Settled /\ CheckWindow
    \/ Settled /\ \E t \in timers : SynthTimer(t)
    \/ Settled /\ \E t \in timers : FallbackTimer(t)

FairDashSpec == DashSpec /\ WF_vars(Scheduled)


\* ------------------------------------------------ strings
\* A string is a sequence of tokens; a token is a piece of text that the
\* operations below never look inside: a marker, a whitespace character, a word.
Markers   == {"Test Case 1:", "Scenario:", "Feature:"}
StepMarks == {"*", "-", "Given", "When", "Then", "And"}
NumberMarks == {"1."}

IsSpace(t) == t \in {" ", "\n"}

\* String.prototype.toLowerCase, token by token
Lower(t) ==
    CASE t = "Login"        -> "login"
      [] t = "Click"        -> "click"
      [] t = "Description:" -> "description:"
      [] t = "Generated"    -> "generated"
      [] t = "Test"         -> "test"
      [] t = "Case"         -> "case"
      [] t = "When"         -> "when"
      [] t = "I"            -> "i"
      [] t = "BUTTON"       -> "button"
      [] t = "INPUT"        -> "input"
      [] t = "DIV"          -> "div"
      [] OTHER              -> t

\* the token with its first letter in upper case
Capital(t) ==
    CASE t = "login"    -> "Login"
      [] t = "click"    -> "Click"
      [] t = "type"     -> "Type"
      [] t = "input"    -> "Input"
      [] t = "navigate" -> "Navigate"
      [] OTHER          -> t

\* tokens made of a-z, 0-9 and _ only
LowerWords == {"login", "click", "type", "input", "navigate", "generated", "test",
               "case", "7", "_"}

\* tokens made of word characters (\w) only
IsWord(t) == Lower(t) \in LowerWords

\* String.prototype.toLowerCase
toLowerCase(str) == [i \in 1..Len(str) |-> Lower(str[i])]

\* String.prototype.includes for a word
includes(str, word) == \E i \in 1..Len(str) : str[i] = word

RECURSIVE TrimStart(_)
TrimStart(str) ==
    IF str # <<>> /\ IsSpace(Head(str)) THEN TrimStart(Tail(str)) ELSE str

RECURSIVE TrimEnd(_)
TrimEnd(str) ==
    IF str # <<>> /\ IsSpace(str[Len(str)])
      THEN TrimEnd(SubSeq(str, 1, Len(str) - 1)) ELSE str

\* String.prototype.trim
Trim(str) == TrimEnd(TrimStart(str))

RECURSIVE Split(_, _)
\* String.prototype.split on the separators `seps`: n separators give n+1 parts
Split(str, seps) ==
    IF \A i \in 1..Len(str) : str[i] \notin seps
      THEN <<str>>
      ELSE LET i == CHOOSE k \in 1..Len(str) :
                       str[k] \in seps /\ \A j \in 1..(k - 1) : str[j] \notin seps
           IN  <<SubSeq(str, 1, i - 1)>> \o Split(SubSeq(str, i + 1, Len(str)), seps)

RECURSIVE Join(_, _)
\* Array.prototype.join
Join(parts, sep) ==
    IF parts = <<>> THEN <<>>
    ELSE IF Len(parts) = 1 THEN parts[1]
    ELSE parts[1] \o sep \o Join(Tail(parts), sep)

\* `n` written out (one digit token per unit)
Numeral(n) == [k \in 1..n |-> "|"]

\* ------------------------------------------------ TestCaseGenerator
\* extractDescription: the first line that mentions description or purpose,
\* without its `description:` label
extractDescription(content) ==
    LET lines == Split(content, {"\n"})
        Mentions(line) ==
            \E i \in 1..Len(line) : Lower(line[i]) \in {"description:", "purpose"}
        IsLabel(t) == Lower(t) = "description:"
        Unlabel(line) ==
            IF \E i \in 1..Len(line) : IsLabel(line[i])
              THEN LET i == CHOOSE k \in 1..Len(line) :
                               IsLabel(line[k]) /\ \A j \in 1..(k - 1) : ~IsLabel(line[j])
                   IN  SubSeq(line, 1, i - 1) \o SubSeq(line, i + 1, Len(line))
              ELSE line
        found == SelectSeq(lines, Mentions)
    IN  IF found # <<>> /\ Trim(Unlabel(found[1])) # <<>>
          THEN Trim(Unlabel(found[1]))
          ELSE <<"AI-generated test case">>

\* the test of extractSteps: /^\d+\.|\*|-|Given|When|Then|And/
StepLine(trimmed) ==
    \/ trimmed # <<>> /\ trimmed[1] \in NumberMarks
    \/ \E i \in 1..Len(trimmed) : trimmed[i] \in StepMarks

\* extractSteps: one step for every line that passes the test, in line order
extractSteps(content) ==
    LET lines == Split(content, {"\n"})
        Step(index) == [id |-> index - 1, action |-> Trim(lines[index]),
                        element |-> <<>>, expected |-> <<>>]
        all == [index \in 1..Len(lines) |-> Step(index)]
    IN  SelectSeq(all, LAMBDA step : StepLine(step.action))

\* the default test case of parseAIResponse
DefaultTestCase(resp, sessionId, fmt) ==
    [sessionId |-> sessionId, title |-> <<"Generated", " ", "Test", " ", "Case">>,
     description |-> <<"AI-generated test case based on recorded interactions">>,
     steps |-> <<>>, format |-> fmt, content |-> resp]

\* a parser that returns what it parsed, also when that is nothing
NoDefault(parsed, resp, sessionId, fmt) == parsed

\* `if (testCases.length === 0) testCases.push({...})`
OrDefault(parsed, resp, sessionId, fmt) ==
    IF Len(parsed) = 0 THEN <<DefaultTestCase(resp, sessionId, fmt)>> ELSE parsed

\* a filter that keeps whitespace-only sections: filter(s => s)
NonEmpty(section) == section # <<>>

\* `.filter(s => s.trim())`
NonBlank(section) == Trim(section) # <<>>

parseAIResponse(resp, sessionId, fmt) ==
    LET sections == SelectSeq(Split(resp, Markers), NonBlank)
        TestCaseOf(index) ==
            LET section == sections[index]
                lines   == Split(Trim(section), {"\n"})
            IN  [sessionId |-> sessionId,
                 title |-> IF Trim(lines[1]) # <<>> THEN Trim(lines[1])
                           ELSE <<"Test Case ">> \o Numeral(index),
                 description |-> extractDescription(section),
                 steps |-> extractSteps(section),
                 format |-> fmt,
                 content |-> Trim(section)]
    IN  OrDefault([index \in 1..Len(sections) |-> TestCaseOf(index)],
                  resp, sessionId, fmt)

\* ------------------------------------------------ FileDownloadService
RECURSIVE UnderscoreSpaces(_)
\* replace(/\s+/g, '_'): every run of whitespace becomes one underscore
UnderscoreSpaces(str) ==
    IF str = <<>> THEN <<>>
    ELSE IF IsSpace(Head(str)) THEN <<"_">> \o UnderscoreSpaces(TrimStart(str))
    ELSE <<Head(str)>> \o UnderscoreSpaces(Tail(str))

\* replace(/[^a-z0-9_]/g, '')
StripOthers(str) == SelectSeq(str, LAMBDA t : t \in LowerWords)

\* toSnakeCase, and the base name of generateFilename
toSnakeCase(str) == StripOthers(UnderscoreSpaces(toLowerCase(str)))

\* toPascalCase: upper-case the first word character, and every word character at
\* a word boundary, then drop whitespace
toPascalCase(str) ==
    LET AtBoundary(i) == IsWord(str[i]) /\ (i = 1 \/ ~IsWord(str[i - 1]))
        capped == [i \in 1..Len(str) |->
                     IF AtBoundary(i) THEN Capital(str[i]) ELSE str[i]]
    IN  SelectSeq(capped, LAMBDA t : ~IsSpace(t))

\* a file name without the prefix of pytest files
PlainFilename(testCase) ==
    toSnakeCase(testCase.title) \o
       <<IF testCase.format = "pytest" THEN ".py" ELSE ".feature">>

generateFilename(testCase) ==
    LET baseName == toSnakeCase(testCase.title)
    IN  CASE testCase.format = "pytest"       -> <<"test_">> \o baseName \o <<".py">>
          [] testCase.format = "selenium_bdd" -> baseName \o <<".feature">>
          [] testCase.format = "gherkin"      -> baseName \o <<".feature">>
          [] OTHER                            -> baseName \o <<".txt">>

Urls == {"https://shop.test"}

\* extractUrlFromContent: the first match of /https?:\/\/[^\s]+/ or the default
extractUrlFromContent(content) ==
    IF \E i \in 1..Len(content) : content[i] \in Urls
      THEN LET i == CHOOSE k \in 1..Len(content) :
                       content[k] \in Urls /\ \A j \in 1..(k - 1) : content[j] \notin Urls
               rest == SubSeq(content, i, Len(content))
           IN  Split(rest, {" ", "\n"})[1]
      ELSE <<"https://example.com">>

\* `step.value`, which extractSteps never sets
ValueOf(step) == IF "value" \in DOMAIN step THEN step.value ELSE <<>>

OrElse(str, default) == IF str # <<>> THEN str ELSE default

\* A text is a sequence of lines, a line a string.  The lines a template
\* writes the same for every test case are kept as one token each.
Keyword(indent, kw, phrase) == <<indent, kw, " ">> \o phrase

Quoted(str) == <<"\"">> \o str \o <<"\"">>

\* a clause that looks for input/type before it looks for click
ClauseTypeFirst(step) ==
    LET action == toLowerCase(step.action)
    IN  IF includes(action, "input") \/ includes(action, "type")
          THEN Keyword("    ", "When", <<"I enter ">> \o Quoted(OrElse(ValueOf(step), <<"test data">>))
                                         \o <<" in ">> \o Quoted(step.element))
        ELSE IF includes(action, "click")
          THEN Keyword("    ", "When", <<"I click on ">> \o Quoted(step.element))
        ELSE IF includes(action, "navigate")
          THEN Keyword("    ", "Given", <<"I navigate to ">>
                                          \o Quoted(OrElse(ValueOf(step), <<"the page">>)))
        ELSE Keyword("    ", "And", <<"I ">> \o action)

\* the clause generateGherkinSteps makes of one step
Clause(step) ==
    LET action == toLowerCase(step.action)
    IN  IF includes(action, "click")
          THEN Keyword("    ", "When", <<"I click on ">> \o Quoted(step.element))
        ELSE IF includes(action, "input") \/ includes(action, "type")
          THEN Keyword("    ", "When", <<"I enter ">> \o Quoted(OrElse(ValueOf(step), <<"test data">>))
                                         \o <<" in ">> \o Quoted(step.element))
        ELSE IF includes(action, "navigate")
          THEN Keyword("    ", "Given", <<"I navigate to ">>
                                          \o Quoted(OrElse(ValueOf(step), <<"the page">>)))
        ELSE Keyword("    ", "And", <<"I ">> \o action)

\* the lines of a template line `indent${text}` whose text has several lines
Place(indent, text) ==
    IF text = <<>> THEN <<<<indent>>>>
    ELSE <<<<indent>> \o text[1]>> \o Tail(text)

\* generateGherkinSteps: the steps' clauses between a fixed first line and two
\* fixed last lines
generateGherkinSteps(testCase) ==
    LET steps == [i \in 1..Len(testCase.steps) |-> Clause(testCase.steps[i])]
    IN  <<<<"Given", " ", "I am on the application page">>>>
        \o Place("    ", steps)
        \o <<Keyword("    ", "Then", <<"I should see the expected results">>),
             Keyword("    ", "And", <<"the page should be displayed correctly">>)>>

\* generatePytestSteps: two lines for every step between fixed lines
generatePytestSteps(testCase) ==
    LET StepLinesOf(step) == <<<<"            # ">> \o step.action,
                               <<"            time.sleep(0.5)  # Small delay for stability">>>>
        RECURSIVE All(_)
        All(steps) == IF steps = <<>> THEN <<>>
                      ELSE StepLinesOf(Head(steps)) \o All(Tail(steps))
    IN  <<<<"# Navigate to the application">>,
          <<"            driver.get(">> \o Quoted(extractUrlFromContent(testCase.content)) \o <<")">>,
          <<"            # Wait for page to load ...">>>>
        \o Place("            ", All(testCase.steps))
        \o <<<<"            # Add assertions ... print(\"Test completed successfully\")">>>>

Annotation(kw, pattern) == <<"    ", "@", kw, "(">> \o Quoted(pattern) \o <<")">>

\* generateJavaStepDefinitions: the same five stubs for every test case
generateJavaStepDefinitions(testCase) ==
    <<Annotation("Given", <<"the browser is open">>),
      <<"    public void the_browser_is_open() { ... }">>,
      Annotation("Given", <<"I navigate to the application">>),
      <<"    public void i_navigate_to_the_application() {">>,
      <<"        driver.get(">> \o Quoted(extractUrlFromContent(testCase.content)) \o <<");">>,
      <<"    }">>,
      Annotation("When", <<"I click on ", "{string}">>),
      <<"    public void i_click_on(String element) { ... }">>,
      Annotation("When", <<"I enter ", "{string}", " in ", "{string}">>),
      <<"    public void i_enter_in(String text, String element) { ... }">>,
      Annotation("Then", <<"I should see the expected results">>),
      <<"    public void i_should_see_the_expected_results() { ... }">>>>

\* Date.prototype.toISOString of the clock value t
toISOString(t) == <<"1970-01-01T00:00:0">> \o Numeral(t) \o <<"Z">>

\* generatePytestFile at clock value t
generatePytestFile(testCase, t) ==
    <<<<"\"\"\"">>, testCase.title, testCase.description, <<>>,
      <<"Generated on: ">> \o toISOString(t),
      <<"\"\"\"">>,
      <<"import pytest ... from selenium.webdriver.chrome.options import Options">>,
      <<"class Test">> \o toPascalCase(testCase.title) \o <<":">>,
      <<"    \"\"\"Test class for ">> \o testCase.title \o <<"\"\"\"">>,
      <<"    @pytest.fixture(scope=\"function\") def driver(self): ...">>,
      <<"    def test_">> \o toSnakeCase(testCase.title) \o <<"(self, driver):">>,
      <<"        \"\"\"">>,
      <<"        ">> \o testCase.description,
      <<"        \"\"\"">>,
      <<"        try:">>>>
    \o Place("            ", generatePytestSteps(testCase))
    \o <<<<"        except Exception as e: ...">>,
         <<"    def wait_for_element ... def wait_and_click ... def wait_and_send_keys ...">>,
         <<"if __name__ == \"__main__\": pytest.main([__file__])">>>>

\* generateSeleniumBDDFiles: feature, step definitions and page object in one text
generateSeleniumBDDFiles(testCase) ==
    LET featureName == toPascalCase(testCase.title)
    IN  <<<<"# Feature File: ">> \o UnderscoreSpaces(toLowerCase(testCase.title))
                                 \o <<".feature">>,
          <<"Feature: ">> \o testCase.title,
          <<"  As a user">>,
          <<"  I want to ">> \o testCase.description,
          <<"  So that I can verify the application functionality">>,
          <<"  Background:">>,
          Keyword("    ", "Given", <<"the browser is open">>),
          Keyword("    ", "And", <<"I navigate to the application">>),
          <<"  Scenario: ">> \o testCase.title>>
        \o Place("    ", generateGherkinSteps(testCase))
        \o <<<<"# Step Definitions (Java)">>,
             <<"# File: ">> \o featureName \o <<"Steps.java">>,
             <<"package stepDefinitions; import ...">>,
             <<"public class ">> \o featureName \o <<"Steps {">>,
             <<"    private WebDriver driver; ... @Before setUp ... @After tearDown">>>>
        \o generateJavaStepDefinitions(testCase)
        \o <<<<"}">>,
             <<"# Page Object Model">>,
             <<"# File: ">> \o featureName \o <<"Page.java">>,
             <<"package pageObjects; import ...">>,
             <<"public class ">> \o featureName \o <<"Page {">>,
             <<"    private WebDriver driver;">>,
             <<"    public ">> \o featureName \o <<"Page(WebDriver driver) { ... }">>,
             <<"    // Add page elements and methods here">>,
             <<"}">>>>

\* generateGherkinFile: three scenarios, the first two with the steps
generateGherkinFile(testCase) ==
    <<<<"Feature: ">> \o testCase.title,
      <<"  ">> \o testCase.description,
      <<"  Background:">>,
      Keyword("    ", "Given", <<"the user is on the application">>),
      Keyword("    ", "And", <<"the system is ready for testing">>),
      <<"  Scenario: ">> \o testCase.title>>
    \o Place("    ", generateGherkinSteps(testCase))
    \o <<<<"  Scenario Outline: ">> \o testCase.title \o <<" with different data">>>>
    \o Place("    ", generateGherkinSteps(testCase))
    \o <<<<"    Examples: | data1 | data2 | expected | ...">>,
         <<"  @smoke @regression">>,
         <<"  Scenario: ">> \o testCase.title \o <<" - Error Handling">>,
         Keyword("    ", "Given", <<"the user is on the application">>),
         Keyword("    ", "When", <<"an error occurs during the process">>),
         Keyword("    ", "Then", <<"the system should handle the error gracefully">>),
         Keyword("    ", "And", <<"display appropriate error messages">>)>>

\* generateFileContent at clock value t
generateFileContent(testCase, t) ==
    CASE testCase.format = "pytest"       -> generatePytestFile(testCase, t)
      [] testCase.format = "selenium_bdd" -> generateSeleniumBDDFiles(testCase)
      [] testCase.format = "gherkin"      -> generateGherkinFile(testCase)
      [] OTHER                            -> <<testCase.content>>

\* ------------------------------------------------ answers of the generation service
RECURSIVE SeqsUpTo(_, _)
\* the sequences over `set` of length at most n
SeqsUpTo(set, n) ==
    IF n = 0 THEN {<<>>}
    ELSE LET shorter == SeqsUpTo(set, n - 1)
         IN  shorter \cup {Append(q, x) : q \in shorter, x \in set}

\* answers with and without section markers, blank ones included
MarkedAnswers ==
    SeqsUpTo(Markers \cup {" ", "\n", "Login", "-", "Description:"}, MaxPieces)

\* answers of one section whose lines are steps
StepLines ==
    {<<"-", "Click">>, <<"-", "type">>, <<"-", "input">>, <<"-", "navigate">>,
     <<"-", "Click", "type">>, <<"-", "input", "navigate">>, <<"1.", "Login">>,
     <<"-", "https://shop.test", "!">>,
     <<"When", " ", "I", " ", "click", " ", "on", " ", "\"", "#buy", "\"">>,
     <<"When", " ", "I", " ", "input", " ", "\"", "42", "\"">>}

StepAnswers ==
    {<<"Scenario:", "Login", "\n">> \o Join(ls, <<"\n">>) :
        ls \in SeqsUpTo(StepLines, MaxLines)}

\* answers of one section that is a title line
TitleAnswers ==
    {<<"Test Case 1:">> \o t : t \in SeqsUpTo({"Login", "7", " ", "_", "!"}, MaxTitle)}

Answers == MarkedAnswers \cup StepAnswers \cup TitleAnswers

Formats == {"pytest", "selenium_bdd", "gherkin"}

\* ------------------------------------------------ specification of synthesis and download
\* the session of the scenario: started on https://example.com, one click on
\* `#buy` and one input of "42" recorded, then stopped
RecordedSession ==
    [id |-> 1, status |-> "processing", endTime |-> Stamp,
     interactions |->
        <<[type |-> "INTERACTION_RECORDED", src |-> 1,
           data |-> [type |-> "click", selector |-> <<"#buy">>, value |-> <<>>]],
          [type |-> "INTERACTION_RECORDED", src |-> 1,
           data |-> [type |-> "input", selector |-> <<"input">>, value |-> <<"42">>]]>>,
     apiCalls |-> <<>>]

\* handleStopRecording has returned and its 3s timer has called
\* generateTestCases, which waits for the generation service; its answer and the
\* selected format are any of the bounded ones
GenInit ==
    /\ sessions = <<RecordedSession>>
    /\ currentSession = 1
    /\ recordingWindow = "null"
    /\ isRecording = FALSE
    /\ listeners = 1
    /\ intervals = 1
    /\ surfaceOwner = 1
    /\ closedFor = Null
    /\ channel = {}
    /\ posted = 2
    /\ calls = SetToBag({Call("generate", "synth", 1)})
    /\ timers = {Timer("fallback", 1, 1)}
    /\ uiSession = 1
    /\ uiTestCases = Null
    /\ response \in Answers
    /\ format \in Formats
    /\ generated = FALSE
    /\ testCases = <<>>
    /\ now = 0
    /\ downloads = <<>>
    /\ target = <<>>
    /\ requests = <<>>

\* generateTestCases after `await blink.ai.generateText`: parse and return
GenerateTestCases ==
    /\ ~generated
    /\ \E c \in Pending :
          /\ c.op = "generate"
          /\ testCases' = parseAIResponse(response, sessions[c.cap].id, format)
    /\ generated' = TRUE
    /\ UNCHANGED <<svc, channel, posted, calls, dash, response, format, now, downloads,
                   target, requests>>

\* downloadTestCase(testCases[i]): content and file name handed to downloadFile
DownloadTestCase(i) ==
    /\ generated
    /\ i \in 1..Len(testCases)
    /\ Len(downloads) < MaxDownloads
    /\ downloads' = Append(downloads,
                           [testCase |-> i,
                            content  |-> generateFileContent(testCases[i], now),
                            filename |-> generateFilename(testCases[i])])
    /\ UNCHANGED <<svc, channel, posted, calls, dash, response, format, generated,
                   testCases, now, target, requests>>

\* time passes
Tick ==
    /\ now < MaxNow
    /\ now' = now + 1
    /\ UNCHANGED <<svc, channel, posted, calls, dash, response, format, generated,
                   testCases, downloads, target, requests>>

GenNext ==
    \/ GenerateTestCases
    \/ \E i \in 1..Len(testCases) : DownloadTestCase(i)
    \/ Tick

GenSpec == GenInit /\ [][GenNext]_vars

\* ------------------------------------------------ injected capture script
RECURSIVE PathFrom(_, _, _)
\* the loop of getSelector over the chain from element i upwards
PathFrom(chain, i, path) ==
    IF i > Len(chain) THEN path
    ELSE LET element == chain[i]
             tag == <<Lower(element.tagName)>>
         IN  IF element.id # <<>>
               THEN <<tag \o <<"#">> \o element.id>> \o path
               ELSE LET selector ==
                          IF element.className # <<>>
                            THEN tag \o <<".">> \o Split(element.className, {" "})[1]
                            ELSE tag
                    IN  PathFrom(chain, i + 1, <<selector>> \o path)

\* getSelector of the injected script
getSelector(chain) ==
    LET element == chain[1]
    IN  IF element.id # <<>> THEN <<"#">> \o element.id
        ELSE IF element.className # <<>>
          THEN <<".">> \o Split(element.className, {" "})[1]
        ELSE Join(PathFrom(chain, 1, <<>>), <<" > ">>)

\* the elements of the recorded page
Elements ==
    [tagName : {"BUTTON", "INPUT"}, id : {<<>>, <<"search-button">>},
     className : SeqsUpTo({" ", "btn", "primary"}, MaxClass)]

Ancestors ==
    [tagName : {"DIV"}, id : {<<>>, <<"main">>}, className : {<<>>, <<"box">>}]

Targets ==
    {<<e>> \o up : e \in Elements, up \in SeqsUpTo(Ancestors, MaxDepth - 1)}

\* a recording is running in an open capture surface whose script is injected;
\* the user is about to act on some element
AgentInit ==
    /\ sessions = <<[id |-> 1, status |-> "recording", endTime |-> Null,
                     interactions |-> <<>>, apiCalls |-> <<>>]>>
    /\ currentSession = 1
    /\ recordingWindow = "open"
    /\ isRecording = TRUE
    /\ listeners = 1
    /\ intervals = 1
    /\ surfaceOwner = 1
    /\ closedFor = Null
    /\ channel = {}
    /\ posted = 0
    /\ calls = EmptyBag
    /\ timers = {}
    /\ uiSession = 1
    /\ uiTestCases = Null
    /\ response = <<>>
    /\ format = "gherkin"
    /\ generated = FALSE
    /\ testCases = <<>>
    /\ now = 0
    /\ downloads = <<>>
    /\ target \in Targets
    /\ requests = <<>>

\* the message a handler of the injected script posts for an event on `target`
Interaction(type) ==
    [type |-> "INTERACTION_RECORDED", src |-> surfaceOwner,
     data |-> [id |-> posted + 1, type |-> type,
               element |-> Lower(target[1].tagName),
               selector |-> getSelector(target)]]

\* the 'click' listener of the injected script
ClickTarget ==
    /\ recordingWindow = "open"
    /\ posted < MaxMsgs
    /\ posted' = posted + 1
    /\ channel' = channel \cup {Interaction("click")}
    /\ UNCHANGED <<svc, calls, dash, gen>>

\* the 'input' listener of the injected script
InputTarget ==
    /\ recordingWindow = "open"
    /\ posted < MaxMsgs
    /\ target[1].tagName \in {"INPUT", "TEXTAREA"}
    /\ posted' = posted + 1
    /\ channel' = channel \cup {Interaction("input")}
    /\ UNCHANGED <<svc, calls, dash, gen>>

AgentNext == ClickTarget \/ InputTarget

AgentSpec == AgentInit /\ [][AgentNext]_vars

\* ------------------------------------------------ injected script: network calls
Methods  == {"GET", "POST"}
Bodies   == {"none", "a=1"}
Statuses == {"200", "500"}

\* fetch(input, init) as the page calls it: with a URL and an init object, or
\* with a Request object that carries method and body itself
FetchForms == {"url", "request"}

\* the page calls the wrapped fetch; originalFetch starts the call
FetchCall(form, method, body) ==
    /\ recordingWindow = "open"
    /\ Len(requests) < MaxRequests
    /\ requests' = Append(requests,
                     [api |-> "fetch", form |-> form, method |-> method,
                      url |-> "/api", body |-> body, handlers |-> 0,
                      outcome |-> "pending", seen |-> "pending"])
    /\ UNCHANGED <<svc, channel, posted, calls, dash, response, format, generated,
                   testCases, now, downloads, target>>

\* the apiCall object the `then` callback of the fetch wrapper builds from args
FetchRecord(i, status) ==
    LET r == requests[i]
    IN  [type |-> "API_CALL_RECORDED", src |-> surfaceOwner,
         data |-> [id |-> i, copy |-> 1,
                   method |-> IF r.form = "url" THEN r.method ELSE "GET",
                   url    |-> IF r.form = "url" THEN r.url ELSE "[object Request]",
                   body   |-> IF r.form = "url" THEN r.body ELSE "none",
                   status |-> status]]

\* originalFetch fulfils with a response: the `then` callback posts the record
\* and returns the response to the page
FetchFulfil(i, status) ==
    /\ i \in 1..Len(requests)
    /\ requests[i].api = "fetch" /\ requests[i].outcome = "pending"
    /\ requests' = [requests EXCEPT ![i] = [@ EXCEPT !.outcome = status, !.seen = status]]
    /\ channel' = channel \cup {FetchRecord(i, status)}
    /\ posted' = posted + 1
    /\ UNCHANGED <<svc, calls, dash, response, format, generated,
                   testCases, now, downloads, target>>

\* originalFetch rejects: `then` has no rejection callback, the rejection goes
\* on to the page
FetchReject(i) ==
    /\ i \in 1..Len(requests)
    /\ requests[i].api = "fetch" /\ requests[i].outcome = "pending"
    /\ requests' = [requests EXCEPT ![i] = [@ EXCEPT !.outcome = "failed",
                                                     !.seen = "failed"]]
    /\ UNCHANGED <<svc, channel, posted, calls, dash, response, format, generated,
                   testCases, now, downloads, target>>

\* the page makes a call with a new XMLHttpRequest (reuse = 0) or with the object
\* of its finished call `reuse`: open, then send, which adds one more `loadend`
\* listener to the object
XhrSend(reuse, method, body) ==
    /\ recordingWindow = "open"
    /\ Len(requests) < MaxRequests
    /\ reuse \in 0..Len(requests)
    /\ reuse # 0 => /\ requests[reuse].api = "xhr"
                    /\ requests[reuse].outcome # "pending"
                    /\ \A j \in (reuse + 1)..Len(requests) : requests[j].api # "xhr"
    /\ requests' = Append(requests,
                     [api |-> "xhr", form |-> "url", method |-> method,
                      url |-> "/api", body |-> body,
                      handlers |-> IF reuse = 0 THEN 1 ELSE requests[reuse].handlers + 1,
                      outcome |-> "pending", seen |-> "pending"])
    /\ UNCHANGED <<svc, channel, posted, calls, dash, response, format, generated,
                   testCases, now, downloads, target>>

\* the apiCall object a `loadend` listener builds: `arguments[0]` is the
\* listener's own argument, the loadend event
XhrRecord(i, copy, status) ==
    [type |-> "API_CALL_RECORDED", src |-> surfaceOwner,
     data |-> [id |-> i, copy |-> copy, method |-> requests[i].method,
               url |-> requests[i].url, body |-> "[object ProgressEvent]",
               status |-> status]]

\* `loadend` of a call: every listener added by send builds its record and posts
\* it.  postMessage has to clone the event object held in `body`: `cloned` says
\* whether the browser does or throws DataCloneError.  status is "0" for a call
\* that failed.
XhrLoadEnd(i, status, cloned) ==
    /\ i \in 1..Len(requests)
    /\ requests[i].api = "xhr" /\ requests[i].outcome = "pending"
    /\ requests' = [requests EXCEPT ![i] = [@ EXCEPT !.outcome = status, !.seen = status]]
    /\ IF cloned
         THEN /\ channel' = channel \cup {XhrRecord(i, copy, status) :
                                             copy \in 1..requests[i].handlers}
              /\ posted' = posted + requests[i].handlers
         ELSE UNCHANGED <<channel, posted>>
    /\ UNCHANGED <<svc, calls, dash, response, format, generated,
                   testCases, now, downloads, target>>

\* a recording is running in an open capture surface whose script is injected;
\* the page is about to make network calls
NetInit ==
    /\ AgentInit
    /\ target = <<[tagName |-> "BUTTON", id |-> <<>>, className |-> <<>>]>>

NetNext ==
    \/ \E form \in FetchForms, method \in Methods, body \in Bodies :
          FetchCall(form, method, body)
    \/ \E i \in 1..Len(requests), status \in Statuses : FetchFulfil(i, status)
    \/ \E i \in 1..Len(requests) : FetchReject(i)
    \/ \E reuse \in 0..Len(requests), method \in Methods, body \in Bodies :
          XhrSend(reuse, method, body)
    \/ \E i \in 1..Len(requests), status \in Statuses \cup {"0"}, cloned \in BOOLEAN :
          XhrLoadEnd(i, status, cloned)

NetSpec == NetInit /\ [][NetNext]_vars

\* ------------------------------------------------ properties of the controller
Held       == currentSession # Null
HeldStatus == sessions[currentSession].status
StartPending == \E c \in Pending : c.op = "start"
StopPending  == \E c \in Pending : c.op = "stop"
Allocates  == Len(sessions') > Len(sessions)

\* C1: while the controller holds a session that is not completed (and no call is
\* suspended), start() is rejected: no step allocates a session or replaces the
\* held one.
C1_StartRejectedWhileActive ==
    [][(Held /\ HeldStatus # "completed" /\ Quiescent)
         => (~Allocates /\ currentSession' = currentSession)]_vars

\* C2: while one start() is suspended at its persistence await, a second start()
\* is rejected: no session is allocated.
C2_ConcurrentStartRejected ==
    [][StartPending => ~Allocates]_vars

\* C3: the held session has endTime set iff its status is processing or completed
\* (looked at when no call is suspended).
C3_EndTimeIffStopped ==
    (Held /\ Quiescent) => ((sessions[currentSession].endTime # Null)
               <=> (HeldStatus \in {"processing", "completed"}))

\* b is a with records appended, every one of them taken from the set `arrived`
Extends(a, b, arrived) ==
    /\ Len(a) <= Len(b)
    /\ SubSeq(b, 1, Len(a)) = a
    /\ \A i \in (Len(a) + 1)..Len(b) : b[i] \in arrived

\* C4: in every step, every session's interactions and apiCalls keep what they
\* held as a prefix, and what is appended is the record delivered in that step
\* (so records stand in the order of their arrival).
C4_AppendOnlyInArrivalOrder ==
    [][\A r \in Refs :
         /\ Extends(sessions[r].interactions, sessions'[r].interactions, channel \ channel')
         /\ Extends(sessions[r].apiCalls, sessions'[r].apiCalls, channel \ channel')]_vars

C4_Witness ==
    \E r \in Refs :
       /\ Len(sessions[r].interactions) >= 2
       /\ sessions[r].interactions[1] # sessions[r].interactions[Len(sessions[r].interactions)]

\* C5: once stop() has stamped a session and handed it out, no later step changes
\* the session's interactions or apiCalls.
C5_NoRecordsAfterStop ==
    [][\A r \in Refs :
         (sessions[r].endTime # Null /\ ~StopPending)
           => (sessions'[r].interactions = sessions[r].interactions
               /\ sessions'[r].apiCalls = sessions[r].apiCalls)]_vars

\* C6: every record a session holds was posted from that session's own surface.
C6_RecordsFromOwnSurface ==
    \A r \in Refs :
       /\ \A i \in 1..Len(sessions[r].interactions) : sessions[r].interactions[i].src = r
       /\ \A i \in 1..Len(sessions[r].apiCalls) : sessions[r].apiCalls[i].src = r

\* C7: stop() called with no session held, or with the held session processing
\* or completed, takes no effect.
C7_StopIsNoOpUnlessRecordingOrPaused ==
    [][(~Held \/ HeldStatus \in {"processing", "completed"})
         => ~(StopAccept("api") \/ StopAccept("ui"))]_vars

\* C8: complete(sessionId) with the id of the held session sets that session's
\* status to completed and, when it returns, the controller holds no session;
\* with any other id, or with no session held, it changes nothing.
C8_CompleteMatchesHeldId ==
    [][/\ \A id \in SessionIds :
            CompleteCall(id) =>
              IF currentSession # Null /\ sessions[currentSession].id = id
                THEN /\ sessions'[currentSession].status = "completed"
                     /\ currentSession' = currentSession
                     /\ \A r \in Refs \ {currentSession} : sessions'[r] = sessions[r]
                ELSE UNCHANGED vars
       /\ \A c \in Pending :
            (c.op = "complete" /\ CompleteResume(c)) =>
              (currentSession' = Null /\ sessions' = sessions)]_vars

C8_Witness ==
    /\ currentSession = Null
    /\ calls = EmptyBag
    /\ \E r \in Refs : sessions[r].status = "completed"

\* C9: when the surface closed while the held session was recording, a liveness
\* check is still running or the session has been moved to processing.
C9_ClosedSurfaceStopsSession ==
    closedFor # Null => intervals > 0

\* ------------------------------------------------ properties of the Dashboard
\* C10: every session that enters processing eventually reaches completed.
C10_ProcessingLeadsToCompleted ==
    \A r \in 1..MaxSessions :
       (r \in Refs /\ sessions[r].status = "processing")
          ~> (r \in Refs /\ sessions[r].status = "completed")

\* C11: when the fallback has completed a session while its synthesis was still
\* pending, the synthesis result that arrives afterwards is dropped: it is not
\* published as the generated test cases.
C11_LateSynthesisDropped ==
    [][\A c \in Pending :
          (c.op = "generate" /\ sessions[c.cap].status = "completed"
             /\ SynthResume(c, TRUE))
          => uiTestCases' = uiTestCases]_vars

\* C12: a failed synthesis produces no test cases and leaves the session as it
\* was: still processing and still held by the controller.
C12_FailedSynthesisKeepsProcessing ==
    [][\A c \in Pending :
          (c.op = "generate" /\ sessions[c.cap].status = "processing"
             /\ SynthResume(c, FALSE))
          => /\ uiTestCases' = uiTestCases
             /\ sessions'[c.cap].status = "processing"
             /\ currentSession' = currentSession]_vars

\* ------------------------------------------------ properties of synthesis
\* the session generateTestCases was called for
InputSession == sessions[1]

\* C13: for every answer of the generation service, blank ones included,
\* generateTestCases returns at least one test case, and every one carries the
\* input session's id and the requested format.
C13_AtLeastOneTestCase ==
    generated =>
        /\ Len(testCases) >= 1
        /\ \A i \in 1..Len(testCases) :
              /\ testCases[i].sessionId = InputSession.id
              /\ testCases[i].format = format

C13_Witness ==
    generated /\ response # <<>> /\ \A i \in 1..Len(response) : IsSpace(response[i])

\* the maximal marker-free stretches <<first, last>> of the answer that hold
\* something other than whitespace, and their rank in order of appearance
Stretches ==
    {st \in (1..Len(response)) \X (1..Len(response)) :
        /\ st[1] <= st[2]
        /\ \A k \in st[1]..st[2] : response[k] \notin Markers
        /\ \E k \in st[1]..st[2] : ~IsSpace(response[k])
        /\ st[1] = 1 \/ response[st[1] - 1] \in Markers
        /\ st[2] = Len(response) \/ response[st[2] + 1] \in Markers}

Rank(st) == 1 + Cardinality({other \in Stretches : other[1] < st[1]})

\* C14: with no non-empty section the result is exactly one test case titled
\* "Generated Test Case", without steps, whose content is the raw answer;
\* otherwise it is one test case per non-empty section, in order of appearance.
C14_FallbackOrOnePerSection ==
    generated =>
        IF Stretches = {}
          THEN /\ Len(testCases) = 1
               /\ testCases[1].title = <<"Generated", " ", "Test", " ", "Case">>
               /\ testCases[1].steps = <<>>
               /\ testCases[1].content = response
          ELSE /\ Len(testCases) = Cardinality(Stretches)
               /\ \A st \in Stretches :
                     testCases[Rank(st)].content = Trim(SubSeq(response, st[1], st[2]))

C14_Witness ==
    /\ generated
    /\ Len(testCases) = 2
    /\ testCases[1].content # testCases[2].content

\* ------------------------------------------------ properties of the renderer
\* a line without its indentation
Unindented(line) ==
    IF line # <<>> /\ line[1] \in {"    ", "        ", "            "}
      THEN (IF Len(line) > 1 /\ line[2] = "    " THEN SubSeq(line, 3, Len(line))
            ELSE Tail(line))
      ELSE line

\* line starts with the tokens of `prefix`
StartsWith(line, prefix) ==
    Len(line) >= Len(prefix) /\ SubSeq(line, 1, Len(prefix)) = prefix

\* C15: two renderings of the same test case, made at whatever times, are
\* identical, for every format.
C15_RenderingDeterministic ==
    \A a, b \in 1..Len(downloads) :
        downloads[a].testCase = downloads[b].testCase
           => downloads[a].content = downloads[b].content

\* C16: for the session with a click on `#buy` and an input of "42", what is
\* synthesized in gherkin format from an answer that names both, once rendered,
\* has a `When I click on "#buy"` line and a `When I enter "42"` line.
C16_SelectorAndValueReachSteps ==
    \A d \in 1..Len(downloads) :
        (/\ format = "gherkin"
         /\ InputSession.interactions[1].data.selector = <<"#buy">>
         /\ InputSession.interactions[2].data.value = <<"42">>
         /\ includes(response, "#buy") /\ includes(response, "42"))
        => LET content == downloads[d].content
           IN  /\ \E k \in 1..Len(content) :
                     Unindented(content[k]) = <<"When", " ", "I click on ", "\"", "#buy", "\"">>
               /\ \E k \in 1..Len(content) :
                     StartsWith(Unindented(content[k]),
                                <<"When", " ", "I enter ", "\"", "42", "\"">>)

\* ------------------------------------------------ properties of the capture script
\* the class tokens of an element
ClassTokens(element) == SelectSeq(element.className, LAMBDA t : ~IsSpace(t))

\* C17: the selector of an element with an id is `#` and the id; of an element
\* without id but with a class it is `.` and the first class token; only
\* elements with neither get an ancestor path.
C17_SelectorPrefersIdThenClass ==
    \A m \in channel :
        LET element == target[1]
            selector == m.data.selector
        IN  /\ element.id # <<>> => selector = <<"#">> \o element.id
            /\ (element.id = <<>> /\ ClassTokens(element) # <<>>)
                  => selector = <<".", ClassTokens(element)[1]>>
            /\ (selector # <<>> /\ selector[1] \in {"button", "input", "div"})
                  => (element.id = <<>> /\ element.className = <<>>)

\* the action of `step` has `word`, whatever the case of its letters
Has(step, word) == \E i \in 1..Len(step.action) : Lower(step.action[i]) = word

\* the kind of clause a step is to get
KindOf(step) ==
    CASE Has(step, "click") -> "click"
      [] ~Has(step, "click") /\ (Has(step, "input") \/ Has(step, "type")) -> "enter"
      [] /\ ~Has(step, "click") /\ ~Has(step, "input") /\ ~Has(step, "type")
         /\ Has(step, "navigate") -> "navigate"
      [] OTHER -> "fallback"

\* the kind of clause a rendered line is
LineKind(line) ==
    LET clause == Unindented(line)
    IN  IF StartsWith(clause, <<"When", " ", "I click on ", "\"">>) THEN "click"
        ELSE IF StartsWith(clause, <<"When", " ", "I enter ", "\"">>) THEN "enter"
        ELSE IF StartsWith(clause, <<"Given", " ", "I navigate to ", "\"">>) THEN "navigate"
        ELSE IF StartsWith(clause, <<"And", " ", "I ">>) THEN "fallback"
        ELSE "none"

\* the lines of a rendered file that follow its `Scenario:` and
\* `Scenario Outline:` headings
ScenarioHeadings(content) ==
    {k \in 1..Len(content) :
        \/ StartsWith(content[k], <<"  Scenario: ">>)
              /\ content[k][Len(content[k])] # " - Error Handling"
        \/ StartsWith(content[k], <<"  Scenario Outline: ">>)}

\* C18: in a gherkin or selenium_bdd file, every block of steps has, between its
\* fixed first line and its fixed `Then` line, one line for each step of the test
\* case, in the order of the steps; the line of a step whose action has `click` in
\* any case is a When-click line; otherwise, with `input` or `type`, a When-enter
\* line; otherwise, with `navigate`, a Given-navigate line; otherwise an And line
\* with the action in lower case.
C18_OneClausePerStepInOrder ==
    \A d \in 1..Len(downloads) :
        LET testCase == testCases[downloads[d].testCase]
            content == downloads[d].content
            steps == testCase.steps
            n == Len(steps)
        IN  testCase.format \in {"gherkin", "selenium_bdd"}
            => /\ ScenarioHeadings(content) # {}
               /\ \A h \in ScenarioHeadings(content) :
                    /\ Unindented(content[h + 1])
                          = <<"Given", " ", "I am on the application page">>
                    /\ Unindented(content[h + 2 + (IF n = 0 THEN 1 ELSE n)])
                          = <<"Then", " ", "I should see the expected results">>
                    /\ \A k \in 1..n :
                          /\ LineKind(content[h + 1 + k]) = KindOf(steps[k])
                          /\ KindOf(steps[k]) = "fallback"
                                => Unindented(content[h + 1 + k])
                                     = <<"And", " ", "I ">>
                                       \o [i \in 1..Len(steps[k].action) |->
                                             Lower(steps[k].action[i])]

\* a rendered feature of two steps, the first with both `click` and `type`, the
\* second of another kind
C18_Witness ==
    \E d \in 1..Len(downloads) :
        LET testCase == testCases[downloads[d].testCase]
        IN  /\ testCase.format \in {"gherkin", "selenium_bdd"}
            /\ Len(testCase.steps) = 2
            /\ Has(testCase.steps[1], "click") /\ Has(testCase.steps[1], "type")
            /\ KindOf(testCase.steps[2]) \in {"navigate", "fallback"}

RECURSIVE NameFrom(_, _)
\* the characters of `title` from position i on, read once from left to right:
\* letters and digits in lower case, underscores as they are, one underscore
\* where a run of whitespace starts, nothing for the rest
NameFrom(title, i) ==
    IF i > Len(title) THEN <<>>
    ELSE IF IsSpace(title[i])
      THEN (IF i > 1 /\ IsSpace(title[i - 1]) THEN <<>> ELSE <<"_">>)
           \o NameFrom(title, i + 1)
    ELSE IF Lower(title[i]) \in LowerWords
      THEN <<Lower(title[i])>> \o NameFrom(title, i + 1)
    ELSE NameFrom(title, i + 1)

Extension(fmt) == IF fmt = "pytest" THEN ".py" ELSE ".feature"

\* equal title and format give the same file name
SameTitleSameName ==
    \A a, b \in 1..Len(downloads) :
        LET ta == testCases[downloads[a].testCase]
            tb == testCases[downloads[b].testCase]
        IN  (ta.title = tb.title /\ ta.format = tb.format)
               => downloads[a].filename = downloads[b].filename

\* C19 as stated: the file name is the title in lower case, whitespace as
\* underscores, the other characters that are no letters or digits removed, and
\* then `.py` for pytest, `.feature` otherwise; equal title and format give the
\* same name.
C19_NameIsTitleAndExtension ==
    /\ \A d \in 1..Len(downloads) :
          LET testCase == testCases[downloads[d].testCase]
          IN  downloads[d].filename
                 = NameFrom(testCase.title, 1) \o <<Extension(testCase.format)>>
    /\ SameTitleSameName

\* C19: the file name is `test_` for pytest and nothing otherwise, then the title
\* in lower case with every run of whitespace as one underscore and every
\* character other than a-z, 0-9 and underscore removed, then `.py` for pytest
\* and `.feature` for selenium_bdd and gherkin; equal title and format give the
\* same name.
C19_NameIsPrefixTitleAndExtension ==
    /\ \A d \in 1..Len(downloads) :
          LET testCase == testCases[downloads[d].testCase]
              prefix == IF testCase.format = "pytest" THEN <<"test_">> ELSE <<>>
          IN  downloads[d].filename
                 = prefix \o NameFrom(testCase.title, 1)
                          \o <<Extension(testCase.format)>>
    /\ SameTitleSameName

\* a pytest file is named after a title with two whitespace characters in a row
\* and a character that is dropped
C19_Witness ==
    \E d \in 1..Len(downloads) :
        LET testCase == testCases[downloads[d].testCase]
        IN  /\ testCase.format = "pytest"
            /\ \E i \in 1..(Len(testCase.title) - 1) :
                  IsSpace(testCase.title[i]) /\ IsSpace(testCase.title[i + 1])
            /\ \E i \in 1..Len(testCase.title) : testCase.title[i] = "!"

StepKeywords == {"Given", "When", "Then", "And"}

RECURSIVE Generalise(_)
\* a step phrase with every quoted string replaced by the parameter {string}
Generalise(phrase) ==
    IF phrase = <<>> THEN <<>>
    ELSE IF Head(phrase) = "\"" /\ \E j \in 2..Len(phrase) : phrase[j] = "\""
      THEN LET j == CHOOSE k \in 2..Len(phrase) :
                       /\ phrase[k] = "\""
                       /\ \A l \in 2..(k - 1) : phrase[l] # "\""
           IN  <<"{string}">> \o Generalise(SubSeq(phrase, j + 1, Len(phrase)))
    ELSE <<Head(phrase)>> \o Generalise(Tail(phrase))

\* the line where the step definitions of a selenium_bdd file start
StubsStart(content) ==
    CHOOSE k \in 1..Len(content) : content[k] = <<"# Step Definitions (Java)">>

\* the step phrases of the feature block of a selenium_bdd file
StepPhrases(content) ==
    {Generalise(SubSeq(Unindented(content[k]), 3, Len(Unindented(content[k])))) :
        k \in {l \in 1..(StubsStart(content) - 1) :
                  /\ Len(Unindented(content[l])) >= 2
                  /\ Unindented(content[l])[1] \in StepKeywords
                  /\ Unindented(content[l])[2] = " "}}

\* the lines of a selenium_bdd file that annotate a stub with `pattern`
StubsFor(content, pattern) ==
    {k \in (StubsStart(content) + 1)..Len(content) :
        \E kw \in StepKeywords : content[k] = <<"    ", "@", kw, "(">>
                                               \o <<"\"">> \o pattern \o <<"\"", ")">>}

\* C20: in every selenium_bdd file each distinct step phrase of the feature block
\* has exactly one stub whose pattern matches it.
C20_OneStubPerStepPhrase ==
    \A d \in 1..Len(downloads) :
        LET testCase == testCases[downloads[d].testCase]
            content == downloads[d].content
        IN  testCase.format = "selenium_bdd"
            => \A phrase \in StepPhrases(content) :
                  Cardinality(StubsFor(content, phrase)) = 1

\* ------------------------------------------------ properties of pause and resume
\* the step changes nothing of the controller but the held session's status and
\* the recording flag
OnlyStatusAndFlag ==
    /\ UNCHANGED <<currentSession, recordingWindow, listeners, intervals, surfaceOwner,
                   channel, posted, calls>>
    /\ \A r \in Refs :
          /\ sessions'[r].interactions = sessions[r].interactions
          /\ sessions'[r].apiCalls = sessions[r].apiCalls
          /\ sessions'[r].endTime = sessions[r].endTime
          /\ sessions'[r].id = sessions[r].id
          /\ r # currentSession => sessions'[r] = sessions[r]

\* C21: pause() on a held session in status recording sets status stopped and
\* clears the flag that was set; resume() on a held session in status stopped sets
\* status recording and sets the flag; neither changes anything else (surface,
\* interactions, apiCalls, endTime), so pause() and then resume() give back the
\* state before the pause.
C21_PauseResumeRoundTrip ==
    [][/\ (Held /\ Quiescent /\ HeldStatus = "recording" /\ PauseRecording)
            => /\ isRecording /\ ~isRecording'
               /\ sessions'[currentSession].status = "stopped"
               /\ OnlyStatusAndFlag
       /\ (Held /\ Quiescent /\ HeldStatus = "stopped" /\ ResumeRecording)
            => /\ isRecording'
               /\ sessions'[currentSession].status = "recording"
               /\ OnlyStatusAndFlag]_vars

\* a session that holds a record was paused while its surface is open
C21_Witness ==
    /\ Held /\ Quiescent
    /\ HeldStatus = "stopped"
    /\ recordingWindow = "open"
    /\ sessions[currentSession].interactions # <<>>
    /\ sessions[currentSession].endTime = Null

\* ------------------------------------------------ properties of a start without surface
\* session r is the last one started, its start has returned, and window.open
\* gave it no surface
NoSurface(r) ==
    /\ r = Len(sessions)
    /\ ~StartPending
    /\ surfaceOwner # r

\* C22: a session whose surface could not be opened is returned in status
\* recording with the controller accepting a stop, and it receives no records.
C22_NoSurfaceNoRecords ==
    \A r \in Refs :
        NoSurface(r)
          => /\ sessions[r].interactions = <<>>
             /\ sessions[r].apiCalls = <<>>
             /\ (Quiescent /\ currentSession = r /\ sessions[r].status = "recording")
                   => StopGuard

\* ------------------------------------------------ properties of network interception
\* the messages emitted for call i that carry what the page sent and got
RecordsOf(i) ==
    {m \in channel :
        /\ m.type = "API_CALL_RECORDED"
        /\ m.data.id = i
        /\ m.data.method = requests[i].method
        /\ m.data.url = requests[i].url
        /\ m.data.body = requests[i].body
        /\ m.data.status = requests[i].outcome}

\* C23: for every fetch or XHR call of the page that has completed (with a
\* response or a failure) exactly one API_CALL_RECORDED message with the call's
\* method, url, body and status has been emitted, none for a call still under way,
\* and the page has seen the outcome of the call itself.
C23_OneRecordPerCall ==
    \A i \in 1..Len(requests) :
        /\ requests[i].seen = requests[i].outcome
        /\ Cardinality(RecordsOf(i))
              = IF requests[i].outcome = "pending" THEN 0 ELSE 1
        /\ Cardinality({m \in channel : m.type = "API_CALL_RECORDED" /\ m.data.id = i})
              <= 1

\* ------------------------------------------------ properties of stop while paused
\* stop() takes effect as it does from status recording
StopTakesEffect ==
    /\ StopAccept("api")
    /\ sessions'[currentSession].status = "processing"
    /\ sessions'[currentSession].endTime # Null
    /\ recordingWindow' = "null"

\* C24: while the held session is paused (status stopped) a call of stop() is
\* accepted: it moves the session to processing, stamps endTime and closes the
\* capture surface.
C24_StopAcceptedWhilePaused ==
    (Held /\ Quiescent /\ HeldStatus = "stopped") => ENABLED StopTakesEffect

\* ------------------------------------------------ properties of the session status
\* how far a status is along recording <-> stopped, processing, completed
StatusRank(status) ==
    CASE status \in {"recording", "stopped"} -> 1
      [] status = "processing" -> 2
      [] status = "completed" -> 3

\* C25: no step moves a session's status backwards: recording and stopped may
\* alternate, and a session that is processing or completed never becomes
\* recording or stopped again (nor a completed one processing).
C25_StatusOnlyMovesForward ==
    [][\A r \in Refs :
          StatusRank(sessions'[r].status) >= StatusRank(sessions[r].status)]_vars

\* ------------------------------------------------ properties of records and pause
\* the records of session r of the kind message m is
RecordsFor(s, r, m) ==
    IF m.type = "INTERACTION_RECORDED" THEN s[r].interactions ELSE s[r].apiCalls

\* C26: a message delivered while the held session is paused (status stopped)
\* changes no session; a message delivered while it is recording (so also after a
\* resume) is appended to it; and a record is only ever appended in the step that
\* delivers it, so what was dropped during a pause never comes back.
C26_PausedDropsRecordingAppends ==
    [][/\ \A m \in channel :
            DeliverMessage(m) =>
              /\ (Held /\ HeldStatus = "stopped") => sessions' = sessions
              /\ (Held /\ HeldStatus = "recording")
                    => LET after == RecordsFor(sessions', currentSession, m)
                       IN  /\ Len(after) > Len(RecordsFor(sessions, currentSession, m))
                           /\ after[Len(after)] = m
       /\ \A r \in Refs :
            /\ Extends(sessions[r].interactions, sessions'[r].interactions,
                       channel \ channel')
            /\ Extends(sessions[r].apiCalls, sessions'[r].apiCalls,
                       channel \ channel')]_vars

\* the only session was never stopped, the first message posted was dropped and
\* the second one appended
C26_Witness ==
    /\ Len(sessions) = 1 /\ Held /\ Quiescent
    /\ HeldStatus = "recording" /\ sessions[1].endTime = Null
    /\ posted = 2 /\ channel = {}
    /\ Len(sessions[1].interactions) + Len(sessions[1].apiCalls) = 1
    /\ \A i \in 1..Len(sessions[1].interactions) : sessions[1].interactions[i].data = 2
    /\ \A i \in 1..Len(sessions[1].apiCalls) : sessions[1].apiCalls[i].data = 2

\* ------------------------------------------------ properties of step extraction
\* the line begins with a list marker or with Given, When, Then, And
BeginsWithMarker(line) ==
    line # <<>> /\ line[1] \in NumberMarks \cup StepMarks

\* the lines of `content`, trimmed, that begin with a marker, in line order
MarkedLines(content) ==
    LET lines == Split(content, {"\n"})
    IN  SelectSeq([k \in 1..Len(lines) |-> Trim(lines[k])], BeginsWithMarker)

\* C27: the steps of a test case made of a section are, in line order, exactly
\* the trimmed lines of the section that begin with a list marker or with Given,
\* When, Then or And; a line with a marker after its start gives no step.
C27_StepsAreLinesBeginningWithMarker ==
    (generated /\ Stretches # {})
      => \A i \in 1..Len(testCases) :
            [k \in 1..Len(testCases[i].steps) |-> testCases[i].steps[k].action]
               = MarkedLines(testCases[i].content)

\* ------------------------------------------------ properties of the listener
\* C28: a delivered message is appended to a session at most once, for the
\* first session and for later ones: a step that delivers a message makes a
\* session's interactions and apiCalls longer by one record at most.
C28_AppendedAtMostOnce ==
    [][\A m \in channel :
          DeliverMessage(m) =>
             \A r \in Refs :
                /\ Len(sessions'[r].interactions) <= Len(sessions[r].interactions) + 1
                /\ Len(sessions'[r].apiCalls) <= Len(sessions[r].apiCalls) + 1]_vars

\* ------------------------------------------------ properties of the recording flag
\* C29: whenever the controller holds no session (and no call is suspended),
\* start() is accepted: the recording flag is not set.
C29_StartAcceptedWhenIdle ==
    (~Held /\ Quiescent) => StartGuard

\* ------------------------------------------------ properties of the Dashboard timers
\* the step changes no session other than a, and a held session other than a
\* stays held
OthersUntouched(a) ==
    /\ \A r \in Refs \ {a} : sessions'[r] = sessions[r]
    /\ (Held /\ currentSession # a) => currentSession' = currentSession

\* C30: the synthesis timer and the fallback timer scheduled when session A was
\* stopped, and the synthesis callback that continues when the generation service
\* has answered or failed, change no session but A; when another session B is
\* held at that time, B stays held.  The continuation of their completeSession
\* releases a completed session only.
C30_TimersCompleteOwnSessionOnly ==
    [][/\ \A t \in timers :
            (SynthTimer(t) \/ FallbackTimer(t)) => OthersUntouched(t.sess)
       /\ \A c \in Pending :
            /\ (c.op = "generate" /\ (SynthResume(c, TRUE) \/ SynthResume(c, FALSE)))
                  => OthersUntouched(c.cap)
            /\ (c.op = "complete" /\ c.caller \in {"synth", "fallback"}
                  /\ CompleteResume(c))
                  => (sessions' = sessions /\ HeldStatus = "completed")]_vars

\* both timers of session 1 have fired and its synthesis has answered while
\* session 2 was held: session 1 was not completed and session 2 is still held
C30_Witness ==
    /\ timers = {} /\ calls = EmptyBag
    /\ Len(sessions) = 2 /\ currentSession = 2
    /\ sessions[1].status = "processing"
    /\ sessions[2].status = "recording"
    /\ uiTestCases = 1

====
